---------------------------- MODULE Spec2Model ----------------------------
(***************************************************************************)
(* State-machine model of src/main.cpp: the activity / display / sleep     *)
(* coordination of the companion-display firmware.                         *)
(*                                                                         *)
(* One main thread (setup, then loop, with goToSleep inlined) whose        *)
(* position is pc, one interrupt handler (buttonISR) that may run between  *)
(* any two main-thread steps, and the free-running millisecond clock.      *)
(* Every main-thread assignment "lastActivity = millis()" made while the   *)
(* interrupt is attached is a clock read (into reg) followed by a store,   *)
(* so the interrupt and the clock can act between the two.  The wireless   *)
(* library's callbacks run synchronously inside chronos.loop() (pc =       *)
(* "poll"), as the design states.                                          *)
(*                                                                         *)
(* Spec is the program.  SpecObserved is the program with the clock value  *)
(* of the last suppressed checkSleep kept as history.  SpecRender applies  *)
(* the render tick to sampled idle durations.  SpecLive is the program     *)
(* with fair main-thread steps, a clock that advances during delay(), and  *)
(* inputs that stop.                                                       *)
(***************************************************************************)
EXTENDS Integers, FiniteSets, Sequences, TLC

VARIABLES
  power,         \* "AWAKE" | "SUSPENDED" (deep sleep)
  wakeCause,     \* what esp_sleep_get_wakeup_cause() will return; "read" once read
  wakeLog,       \* the line handleWakeUp printed, until setup prints the next one
  now,           \* millis()
  pc,            \* position of the main thread
  reg,           \* clock or timestamp value the main thread has read and not yet used
  delayUntil,    \* end of the delay() in progress
  lastActivity,
  sleepEnabled,
  buttonPressed,
  isrAttached,   \* attachInterrupt() has run since the last boot
  hasNotif,
  notifStart,
  hasNav,
  navData,       \* [active, text, hasIcon, icon]
  batteryLevel,
  isCharging,
  currentTime,   \* "" until first formatted
  lastUpdate,    \* the static local of loop()
  screen,        \* last frame flushed: [mode, countdown]
  ext0Armed,     \* edge wake source armed
  timerArmed,    \* timer wake source armed
  suppressedAt   \* history: clock value read by the last checkSleep that found a
                 \* suppressor, -1 if none since boot (written by checkSleepObserved only)

vars == <<power, wakeCause, wakeLog, now, pc, reg, delayUntil, lastActivity,
          sleepEnabled, buttonPressed, isrAttached, hasNotif, notifStart,
          hasNav, navData, batteryLevel, isCharging, currentTime,
          lastUpdate, screen, ext0Armed, timerArmed, suppressedAt>>

---------------------------------------------------------------------------
(* Program constants *)

SLEEP_TIME_MS == 30000

NOTIF_SHOW_MS == 1500

RENDER_PERIOD_MS == 1000

COUNTDOWN_MS == 10000

SETUP_DELAY_MS == 1000

SLEEP_HOLD_MS == 1000

LOOP_DELAY_MS == 10

GAUGE_FILL_PX == 18

---------------------------------------------------------------------------
(* Bounds *)

\* Half-width of the window of clock values sampled around each instant.
Jitter == 1

\* Longest time, in ms, the main thread is held up (by the interrupt or by
\* other tasks) between reading a value and using it.
MaxStall == 2

\* The instants around which the clock is sampled: the end of a notification
\* window opened at the end of setup, and the inactivity timeout counted from
\* the end of setup.
NotifInstant == SETUP_DELAY_MS + NOTIF_SHOW_MS

TimeoutInstant == SETUP_DELAY_MS + SLEEP_TIME_MS

\* Last clock value: late enough for the hold of a sleep transition started
\* at the latest sampled instant to end.
Horizon == SETUP_DELAY_MS + SLEEP_TIME_MS + Jitter + SLEEP_HOLD_MS

TimePoints ==
  {0, SETUP_DELAY_MS}
    \cup ((NotifInstant - Jitter)..(NotifInstant + Jitter))
    \cup (TimeoutInstant..(TimeoutInstant + Jitter))
    \cup {Horizon}

---------------------------------------------------------------------------
(* unsigned long / uint32_t arithmetic, on 16-bit halves <<hi, lo>> *)

W16 == 2^16

U32(n) == << n \div W16, n % W16 >>

\* x - y modulo 2^32
SubU32(x, y) ==
  LET borrow == IF x[2] < y[2] THEN 1 ELSE 0
      lo     == (x[2] - y[2]) + borrow * W16
      hi     == (x[1] - y[1] - borrow + W16) % W16
  IN  << hi, lo >>

GtU32(x, y) == x[1] > y[1] \/ (x[1] = y[1] /\ x[2] > y[2])

LtU32(x, y) == GtU32(y, x)

\* The difference taken with its operands exchanged.
Elapsed_Exchanged(m, t) == SubU32(U32(t), U32(m))

\* millis() - t as the code computes it, for clock values m and t
Elapsed(m, t) == SubU32(U32(m), U32(t))

\* uint32_t -> int
ToInt(x) == IF x[1] < W16 \div 2 THEN x[1] * W16 + x[2]
                                 ELSE (x[1] - W16) * W16 + x[2]

\* C integer division, truncating toward zero (d > 0)
CDiv(n, d) == IF n >= 0 THEN n \div d ELSE -((-n) \div d)

---------------------------------------------------------------------------
(* Inputs *)

\* Wake causes the platform can report after a restart.
WakeCauses == {"EXT0", "TIMER", "UNDEFINED"}

\* Battery level words carried by a CF_PBAT event: one in the range 0..100 and
\* one above it.
LevelInputs == { U32(57), U32(200) }

\* What chronos.getNavigation() can return on a CF_NAV_DATA / CF_NAV_ICON event.
\* text stands for the direction and distance strings, icon for the bitmap.
NavInputs ==
  { [active |-> a, text |-> IF a THEN 1 ELSE 0,
     hasIcon |-> h, icon |-> IF h THEN 1 ELSE 0] : a, h \in BOOLEAN }

NoNav == [active |-> FALSE, text |-> 0, hasIcon |-> FALSE, icon |-> 0]

NoScreen == [mode |-> "none", countdown |-> -1]

Frame(m) == [mode |-> m, countdown |-> -1]

---------------------------------------------------------------------------
(* Initial state: the globals as initialised at every (re)start *)

Boot(cause) ==
  /\ power = "AWAKE"
  /\ wakeCause = cause
  /\ wakeLog = ""
  /\ now = 0
  /\ pc = "boot"
  /\ reg = 0
  /\ delayUntil = 0
  /\ lastActivity = 0
  /\ sleepEnabled = TRUE
  /\ buttonPressed = FALSE
  /\ isrAttached = FALSE
  /\ hasNotif = FALSE
  /\ notifStart = 0
  /\ hasNav = FALSE
  /\ navData = NoNav
  /\ batteryLevel = 0
  /\ isCharging = FALSE
  /\ currentTime = ""
  /\ lastUpdate = 0
  /\ screen = NoScreen
  /\ ext0Armed = FALSE
  /\ timerArmed = FALSE
  /\ suppressedAt = -1

Init == Boot("UNDEFINED")

---------------------------------------------------------------------------
(* The clock and the interrupt *)

\* The positions at which the main thread holds a value it has just read.
HoldsRead == {"st_setup", "st_cb", "st_btn", "st_cs", "cs_m", "cs_l"}

\* millis() advances while the chip runs.
Tick ==
  /\ power = "AWAKE"
  /\ \E t \in TimePoints :
       /\ t > now
       /\ pc \in HoldsRead => t - now <= MaxStall
       /\ now' = t
  /\ UNCHANGED <<power, wakeCause, wakeLog, pc, reg, delayUntil, lastActivity,
                 sleepEnabled, buttonPressed, isrAttached, hasNotif, notifStart,
                 hasNav, navData, batteryLevel, isCharging,
                 currentTime, lastUpdate, screen, ext0Armed, timerArmed>>
  /\ UNCHANGED suppressedAt

buttonISR ==
  /\ power = "AWAKE"
  /\ isrAttached
  /\ buttonPressed' = TRUE
  /\ lastActivity' = now
  /\ UNCHANGED <<power, wakeCause, wakeLog, now, pc, reg, delayUntil,
                 sleepEnabled, isrAttached, hasNotif, notifStart, hasNav, navData, batteryLevel, isCharging, currentTime,
                 lastUpdate, screen, ext0Armed, timerArmed>>
  /\ UNCHANGED suppressedAt

\* The store half of a main-thread "lastActivity = millis()".
AfterStore(p) ==
  CASE p = "st_setup" -> "poll"
    [] p = "st_cb"    -> "poll"
    [] p = "st_btn"   -> "render"
    [] p = "st_cs"    -> "delay"

StoreActivity ==
  /\ power = "AWAKE"
  /\ pc \in {"st_setup", "st_cb", "st_btn", "st_cs"}
  /\ lastActivity' = reg
  /\ reg' = 0
  /\ pc' = AfterStore(pc)
  /\ delayUntil' = IF pc = "st_cs" THEN now + LOOP_DELAY_MS ELSE delayUntil
  /\ UNCHANGED <<power, wakeCause, wakeLog, now, sleepEnabled, buttonPressed,
                 isrAttached, hasNotif, notifStart, hasNav, navData,
                 batteryLevel, isCharging, currentTime, lastUpdate, screen,
                 ext0Armed, timerArmed>>
  /\ UNCHANGED suppressedAt

---------------------------------------------------------------------------
(* setup() *)

WakeMessage(cause) ==
  CASE cause = "EXT0"  -> "button"
    [] cause = "TIMER" -> "timer"
    [] OTHER           -> "other"

\* A resume that restarts the idle timer only for a button wake.
resumeActivity_ButtonOnly(cause) == IF cause = "EXT0" THEN now ELSE lastActivity

\* The timestamp handleWakeUp stores, whatever the cause.
resumeActivity(cause) == now

\* The interrupt is not attached yet: the assignment cannot be preempted by it.
\* The cause is read here and nowhere else, so the model forgets it.
handleWakeUp ==
  /\ power = "AWAKE"
  /\ pc = "boot"
  /\ wakeLog' = WakeMessage(wakeCause)
  /\ wakeCause' = "read"
  /\ lastActivity' = resumeActivity(wakeCause)
  /\ pc' = "setup_display"
  /\ UNCHANGED <<power, now, reg, delayUntil, sleepEnabled,
                 buttonPressed, isrAttached, hasNotif, notifStart, hasNav, navData, batteryLevel, isCharging, currentTime,
                 lastUpdate, screen, ext0Armed, timerArmed>>
  /\ UNCHANGED suppressedAt

\* pinMode, attachInterrupt, u8g2.begin, the "Starting..." frame, delay(1000)
SetupDisplay ==
  /\ power = "AWAKE"
  /\ pc = "setup_display"
  /\ isrAttached' = TRUE
  /\ screen' = Frame("starting")
  /\ delayUntil' = now + SETUP_DELAY_MS
  /\ pc' = "setup_delay"
  /\ UNCHANGED <<power, wakeCause, wakeLog, now, reg, lastActivity,
                 sleepEnabled, buttonPressed, hasNotif, notifStart, hasNav, navData, batteryLevel, isCharging, currentTime,
                 lastUpdate, ext0Armed, timerArmed>>
  /\ UNCHANGED suppressedAt

\* end of the delay, callbacks registered, chronos.begin, millis() read
SetupFinish ==
  /\ power = "AWAKE"
  /\ pc = "setup_delay"
  /\ now >= delayUntil
  /\ delayUntil' = 0
  /\ reg' = now
  /\ wakeLog' = "started"
  /\ pc' = "st_setup"
  /\ UNCHANGED <<power, wakeCause, now, lastActivity, sleepEnabled,
                 buttonPressed, isrAttached, hasNotif, notifStart, hasNav, navData, batteryLevel, isCharging, currentTime,
                 lastUpdate, screen, ext0Armed, timerArmed>>
  /\ UNCHANGED suppressedAt

---------------------------------------------------------------------------
(* Callbacks, run by chronos.loop() *)

onConnection(state) ==
  /\ power = "AWAKE"
  /\ pc = "poll"
  /\ reg' = now
  /\ pc' = "st_cb"
  /\ UNCHANGED <<power, wakeCause, wakeLog, now, delayUntil, lastActivity,
                 sleepEnabled, buttonPressed, isrAttached, hasNotif, notifStart,
                 hasNav, navData, batteryLevel, isCharging,
                 currentTime, lastUpdate, screen, ext0Armed, timerArmed>>
  /\ UNCHANGED suppressedAt

\* The stored text is shown only by drawNotification and is not modelled.
\* The two calls of millis() are taken in the same millisecond.
onNotification ==
  /\ power = "AWAKE"
  /\ pc = "poll"
  /\ notifStart' = now
  /\ hasNotif' = TRUE
  /\ reg' = now
  /\ pc' = "st_cb"
  /\ UNCHANGED <<power, wakeCause, wakeLog, now, delayUntil, lastActivity,
                 sleepEnabled, buttonPressed, isrAttached, hasNav, navData,
                 batteryLevel, isCharging, currentTime, lastUpdate, screen,
                 ext0Armed, timerArmed>>
  /\ UNCHANGED suppressedAt

\* A battery update that does not reset the sleep timer.
recordsActivity_NavigationOnly(type, nav) ==
  type = "CF_NAV_DATA" /\ nav.active

\* The branches of onConfig that assign lastActivity.
recordsActivity(type, nav) ==
  type = "CF_PBAT" \/ (type = "CF_NAV_DATA" /\ nav.active)

\* onConfig(type, a, b); nav is what chronos.getNavigation() returns.
onConfig(type, a, b, nav) ==
  /\ power = "AWAKE"
  /\ pc = "poll"
  /\ currentTime' = IF type = "CF_TIME" THEN "hh:mm" ELSE currentTime
  /\ batteryLevel' = IF type = "CF_PBAT" THEN ToInt(b) ELSE batteryLevel
  /\ isCharging' = IF type = "CF_PBAT" THEN (a = 1) ELSE isCharging
  /\ navData' = CASE type = "CF_NAV_DATA" -> nav
                  [] type = "CF_NAV_ICON" ->
                       [navData EXCEPT !.icon = nav.icon, !.hasIcon = TRUE]
                  [] OTHER -> navData
  /\ hasNav' = IF type = "CF_NAV_DATA" THEN nav.active ELSE hasNav
  /\ IF recordsActivity(type, nav)
       THEN reg' = now /\ pc' = "st_cb"
       ELSE UNCHANGED <<reg, pc>>
  /\ UNCHANGED <<power, wakeCause, wakeLog, now, delayUntil, lastActivity,
                 sleepEnabled, buttonPressed, isrAttached, hasNotif, notifStart,
                 lastUpdate, screen, ext0Armed, timerArmed>>
  /\ UNCHANGED suppressedAt

\* The configuration events the library can deliver.
ConfigEvents ==
  { <<"CF_TIME", 0, U32(0), NoNav>> }
    \cup { <<"CF_PBAT", a, b, NoNav>> : a \in {0, 1}, b \in LevelInputs }
    \cup { <<t, 0, U32(0), n>> : t \in {"CF_NAV_DATA", "CF_NAV_ICON"}, n \in NavInputs }

\* The frame drawn before the button flag is looked at.
PollReturn_RenderFirst ==
  /\ power = "AWAKE"
  /\ pc = "poll"
  /\ pc' = "render"
  /\ UNCHANGED <<power, wakeCause, wakeLog, now, reg, delayUntil, lastActivity,
                 sleepEnabled, buttonPressed, isrAttached, hasNotif, notifStart,
                 hasNav, navData, batteryLevel, isCharging,
                 currentTime, lastUpdate, screen, ext0Armed, timerArmed,
                 suppressedAt>>

\* chronos.loop() returns.
PollReturn ==
  /\ power = "AWAKE"
  /\ pc = "poll"
  /\ pc' = "button"
  /\ UNCHANGED <<power, wakeCause, wakeLog, now, reg, delayUntil, lastActivity,
                 sleepEnabled, buttonPressed, isrAttached, hasNotif, notifStart,
                 hasNav, navData, batteryLevel, isCharging,
                 currentTime, lastUpdate, screen, ext0Armed, timerArmed>>
  /\ UNCHANGED suppressedAt

---------------------------------------------------------------------------
(* Rendering *)

drawBatteryFill(level) == CDiv(level * GAUGE_FILL_PX, 100)

\* The remaining time computed in signed arithmetic.
drawClock_SignedRemaining ==
  [ mode |-> "clock",
    countdown |->
      IF ~isCharging /\ ~hasNotif /\ (~hasNav \/ ~navData.active)
        THEN LET timeToSleep == SLEEP_TIME_MS - (now - lastActivity)
             IN  IF timeToSleep < COUNTDOWN_MS
                   THEN CDiv(timeToSleep, 1000)
                   ELSE -1
        ELSE -1 ]

\* The countdown drawClock shows, -1 when it draws none.
drawClock ==
  [ mode |-> "clock",
    countdown |->
      IF ~isCharging /\ ~hasNotif /\ (~hasNav \/ ~navData.active)
        THEN LET timeToSleep == SubU32(U32(SLEEP_TIME_MS), Elapsed(now, lastActivity))
             IN  IF LtU32(timeToSleep, U32(COUNTDOWN_MS))
                   THEN ToInt(timeToSleep) \div 1000
                   ELSE -1
        ELSE -1 ]

\* Navigation drawn in preference to a notification.
drawScreen_NavigationFirst ==
  IF hasNav /\ navData.active
    THEN Frame("navigation")
    ELSE IF hasNotif /\ LtU32(Elapsed(now, notifStart), U32(NOTIF_SHOW_MS))
           THEN Frame("notification")
           ELSE drawClock

drawScreen ==
  IF hasNotif /\ LtU32(Elapsed(now, notifStart), U32(NOTIF_SHOW_MS))
    THEN Frame("notification")
    ELSE IF hasNav /\ navData.active
           THEN Frame("navigation")
           ELSE drawClock

---------------------------------------------------------------------------
(* loop() *)

LoopButton ==
  /\ power = "AWAKE"
  /\ pc = "button"
  /\ IF buttonPressed
       THEN buttonPressed' = FALSE /\ reg' = now /\ pc' = "st_btn"
       ELSE pc' = "render" /\ UNCHANGED <<buttonPressed, reg>>
  /\ UNCHANGED <<power, wakeCause, wakeLog, now, delayUntil, lastActivity,
                 sleepEnabled, isrAttached, hasNotif, notifStart, hasNav, navData, batteryLevel, isCharging, currentTime,
                 lastUpdate, screen, ext0Armed, timerArmed>>
  /\ UNCHANGED suppressedAt

\* The render tick; its calls of millis() are taken in the same millisecond.
LoopRender ==
  /\ power = "AWAKE"
  /\ pc = "render"
  /\ IF GtU32(Elapsed(now, lastUpdate), U32(RENDER_PERIOD_MS))
       THEN /\ lastUpdate' = now
            /\ currentTime' = "hh:mm"
            /\ screen' = drawScreen
       ELSE UNCHANGED <<lastUpdate, currentTime, screen>>
  /\ pc' = "expire"
  /\ UNCHANGED <<power, wakeCause, wakeLog, now, reg, delayUntil, lastActivity,
                 sleepEnabled, buttonPressed, isrAttached, hasNotif, notifStart,
                 hasNav, navData, batteryLevel, isCharging,
                 ext0Armed, timerArmed>>
  /\ UNCHANGED suppressedAt

\* Expiry as soon as the window has ended.
notifExpired_AtWindowEnd ==
  hasNotif /\ ~LtU32(Elapsed(now, notifStart), U32(NOTIF_SHOW_MS))

\* The expiry test of loop().
notifExpired ==
  hasNotif /\ GtU32(Elapsed(now, notifStart), U32(NOTIF_SHOW_MS))

\* An expiry that counts as activity.
LoopExpire_RecordsActivity ==
  /\ power = "AWAKE"
  /\ pc = "expire"
  /\ hasNotif' = IF notifExpired THEN FALSE ELSE hasNotif
  /\ lastActivity' = IF notifExpired THEN now ELSE lastActivity
  /\ pc' = "checkSleep"
  /\ UNCHANGED <<power, wakeCause, wakeLog, now, reg, delayUntil,
                 sleepEnabled, buttonPressed, isrAttached, notifStart, hasNav,
                 navData, batteryLevel, isCharging, currentTime,
                 lastUpdate, screen, ext0Armed, timerArmed, suppressedAt>>

\* An expiry that clears the start time and leaves the flag set.
LoopExpire_ClearsStart ==
  /\ power = "AWAKE"
  /\ pc = "expire"
  /\ notifStart' = IF notifExpired THEN 0 ELSE notifStart
  /\ pc' = "checkSleep"
  /\ UNCHANGED <<power, wakeCause, wakeLog, now, reg, delayUntil, lastActivity,
                 sleepEnabled, buttonPressed, isrAttached, hasNotif, hasNav,
                 navData, batteryLevel, isCharging, currentTime,
                 lastUpdate, screen, ext0Armed, timerArmed, suppressedAt>>

\* The expiry check of loop().
LoopExpire ==
  /\ power = "AWAKE"
  /\ pc = "expire"
  /\ hasNotif' = IF notifExpired THEN FALSE ELSE hasNotif
  /\ pc' = "checkSleep"
  /\ UNCHANGED <<power, wakeCause, wakeLog, now, reg, delayUntil, lastActivity,
                 sleepEnabled, buttonPressed, isrAttached, notifStart, hasNav, navData, batteryLevel, isCharging, currentTime,
                 lastUpdate, screen, ext0Armed, timerArmed>>
  /\ UNCHANGED suppressedAt

\* A suppressor test that leaves charging out.
Suppressed_IgnoresCharging == hasNotif \/ (hasNav /\ navData.active)

\* The suppressor test of checkSleep.
Suppressed == isCharging \/ hasNotif \/ (hasNav /\ navData.active)

\* checkSleep up to the first operand of "millis() - lastActivity": the two
\* operands are read in either order.
checkSleepStep ==
  /\ power = "AWAKE"
  /\ pc = "checkSleep"
  /\ IF Suppressed
       THEN reg' = now /\ pc' = "st_cs" /\ UNCHANGED delayUntil
       ELSE IF ~sleepEnabled
              THEN pc' = "delay" /\ delayUntil' = now + LOOP_DELAY_MS
                   /\ UNCHANGED reg
              ELSE /\ \/ reg' = now /\ pc' = "cs_m"
                      \/ reg' = lastActivity /\ pc' = "cs_l"
                   /\ UNCHANGED delayUntil
  /\ UNCHANGED <<power, wakeCause, wakeLog, now, lastActivity, sleepEnabled,
                 buttonPressed, isrAttached, hasNotif, notifStart, hasNav, navData, batteryLevel, isCharging, currentTime,
                 lastUpdate, screen, ext0Armed, timerArmed>>

\* checkSleep as the program runs it.
checkSleep ==
  /\ checkSleepStep
  /\ UNCHANGED suppressedAt

\* checkSleep, with the clock value of a suppressed evaluation kept as history.
checkSleepObserved ==
  /\ checkSleepStep
  /\ suppressedAt' = IF Suppressed THEN now ELSE suppressedAt

\* "millis() - lastActivity" with the operand read so far in reg.
IdleRead ==
  IF pc = "cs_m" THEN Elapsed(reg, lastActivity) ELSE Elapsed(now, reg)

\* Sleep as soon as the timeout is reached.
idleTimedOut_AtTimeout == ~LtU32(IdleRead, U32(SLEEP_TIME_MS))

\* The timeout test of checkSleep.
idleTimedOut == GtU32(IdleRead, U32(SLEEP_TIME_MS))

\* The second operand, the comparison, and the call of goToSleep or delay(10).
checkSleepCompare ==
  /\ power = "AWAKE"
  /\ pc \in {"cs_m", "cs_l"}
  /\ reg' = 0
  /\ IF idleTimedOut
       THEN pc' = "gs_draw" /\ UNCHANGED delayUntil
       ELSE pc' = "delay" /\ delayUntil' = now + LOOP_DELAY_MS
  /\ UNCHANGED <<power, wakeCause, wakeLog, now, lastActivity, sleepEnabled,
                 buttonPressed, isrAttached, hasNotif, notifStart, hasNav, navData, batteryLevel, isCharging, currentTime,
                 lastUpdate, screen, ext0Armed, timerArmed>>
  /\ UNCHANGED suppressedAt

\* delay(10) ends.
LoopDelay ==
  /\ power = "AWAKE"
  /\ pc = "delay"
  /\ now >= delayUntil
  /\ delayUntil' = 0
  /\ pc' = "poll"
  /\ UNCHANGED <<power, wakeCause, wakeLog, now, reg, lastActivity,
                 sleepEnabled, buttonPressed, isrAttached, hasNotif, notifStart,
                 hasNav, navData, batteryLevel, isCharging,
                 currentTime, lastUpdate, screen, ext0Armed, timerArmed>>
  /\ UNCHANGED suppressedAt

---------------------------------------------------------------------------
(* goToSleep() *)

\* "Sleeping..." frame flushed, delay(1000) started
goToSleepDraw ==
  /\ power = "AWAKE"
  /\ pc = "gs_draw"
  /\ screen' = Frame("sleeping")
  /\ delayUntil' = now + SLEEP_HOLD_MS
  /\ pc' = "gs_hold"
  /\ UNCHANGED <<power, wakeCause, wakeLog, now, reg, lastActivity,
                 sleepEnabled, buttonPressed, isrAttached, hasNotif, notifStart,
                 hasNav, navData, batteryLevel, isCharging,
                 currentTime, lastUpdate, ext0Armed, timerArmed>>
  /\ UNCHANGED suppressedAt

\* A hold that gives the transition up when the button was pressed during it.
goToSleepBlank_Cancellable ==
  /\ power = "AWAKE"
  /\ pc = "gs_hold"
  /\ now >= delayUntil
  /\ IF buttonPressed
       THEN /\ pc' = "delay"
            /\ delayUntil' = now + LOOP_DELAY_MS
            /\ UNCHANGED screen
       ELSE /\ pc' = "gs_ext0"
            /\ delayUntil' = 0
            /\ screen' = Frame("blank")
  /\ UNCHANGED <<power, wakeCause, wakeLog, now, reg, lastActivity,
                 sleepEnabled, buttonPressed, isrAttached, hasNotif, notifStart,
                 hasNav, navData, batteryLevel, isCharging,
                 currentTime, lastUpdate, ext0Armed, timerArmed>>
  /\ UNCHANGED suppressedAt

\* end of the hold, empty frame flushed
goToSleepBlank ==
  /\ power = "AWAKE"
  /\ pc = "gs_hold"
  /\ now >= delayUntil
  /\ delayUntil' = 0
  /\ screen' = Frame("blank")
  /\ pc' = "gs_ext0"
  /\ UNCHANGED <<power, wakeCause, wakeLog, now, reg, lastActivity,
                 sleepEnabled, buttonPressed, isrAttached, hasNotif, notifStart,
                 hasNav, navData, batteryLevel, isCharging,
                 currentTime, lastUpdate, ext0Armed, timerArmed>>
  /\ UNCHANGED suppressedAt

\* esp_sleep_enable_ext0_wakeup; ok is whether the platform returned ESP_OK.
\* The return value is not looked at.
armExt0(ok) ==
  /\ power = "AWAKE"
  /\ pc = "gs_ext0"
  /\ ext0Armed' = ok
  /\ pc' = "gs_timer"
  /\ UNCHANGED <<power, wakeCause, wakeLog, now, reg, delayUntil, lastActivity,
                 sleepEnabled, buttonPressed, isrAttached, hasNotif, notifStart,
                 hasNav, navData, batteryLevel, isCharging,
                 currentTime, lastUpdate, screen, timerArmed>>
  /\ UNCHANGED suppressedAt

\* esp_sleep_enable_timer_wakeup, likewise
armTimer(ok) ==
  /\ power = "AWAKE"
  /\ pc = "gs_timer"
  /\ timerArmed' = ok
  /\ pc' = "gs_start"
  /\ UNCHANGED <<power, wakeCause, wakeLog, now, reg, delayUntil, lastActivity,
                 sleepEnabled, buttonPressed, isrAttached, hasNotif, notifStart,
                 hasNav, navData, batteryLevel, isCharging,
                 currentTime, lastUpdate, screen, ext0Armed>>
  /\ UNCHANGED suppressedAt

\* esp_deep_sleep_start: does not return
deepSleepStart ==
  /\ power = "AWAKE"
  /\ pc = "gs_start"
  /\ power' = "SUSPENDED"
  /\ pc' = "halted"
  /\ UNCHANGED <<wakeCause, wakeLog, now, reg, delayUntil, lastActivity,
                 sleepEnabled, buttonPressed, isrAttached, hasNotif, notifStart,
                 hasNav, navData, batteryLevel, isCharging,
                 currentTime, lastUpdate, screen, ext0Armed, timerArmed>>
  /\ UNCHANGED suppressedAt

\* The chip restarts: by an armed wake source, or by a reset (cause UNDEFINED).
\* Nothing is retained; the program starts again from its initialisers.
Wake(cause) ==
  /\ power = "SUSPENDED"
  /\ cause = "EXT0" => ext0Armed
  /\ cause = "TIMER" => timerArmed
  /\ power' = "AWAKE"
  /\ wakeCause' = cause
  /\ wakeLog' = ""
  /\ now' = 0
  /\ pc' = "boot"
  /\ reg' = 0
  /\ delayUntil' = 0
  /\ lastActivity' = 0
  /\ sleepEnabled' = TRUE
  /\ buttonPressed' = FALSE
  /\ isrAttached' = FALSE
  /\ hasNotif' = FALSE
  /\ notifStart' = 0
  /\ hasNav' = FALSE
  /\ navData' = NoNav
  /\ batteryLevel' = 0
  /\ isCharging' = FALSE
  /\ currentTime' = ""
  /\ lastUpdate' = 0
  /\ screen' = NoScreen
  /\ ext0Armed' = FALSE
  /\ timerArmed' = FALSE
  /\ suppressedAt' = -1

---------------------------------------------------------------------------

Next ==
  \/ Tick
  \/ buttonISR
  \/ StoreActivity
  \/ handleWakeUp
  \/ SetupDisplay
  \/ SetupFinish
  \/ \E state \in BOOLEAN : onConnection(state)
  \/ onNotification
  \/ \E e \in ConfigEvents : onConfig(e[1], e[2], e[3], e[4])
  \/ PollReturn
  \/ LoopButton
  \/ LoopRender
  \/ LoopExpire
  \/ checkSleep
  \/ checkSleepCompare
  \/ LoopDelay
  \/ goToSleepDraw
  \/ goToSleepBlank
  \/ \E ok \in BOOLEAN : armExt0(ok)
  \/ \E ok \in BOOLEAN : armTimer(ok)
  \/ deepSleepStart
  \/ \E cause \in WakeCauses : Wake(cause)

Spec == Init /\ [][Next]_vars

---------------------------------------------------------------------------
(* Sleep eligibility *)

\* The operands of "millis() - lastActivity" as checkSleep reads them.
C1_ClockRead == IF pc = "cs_m" THEN reg ELSE now

C1_ActivityRead == IF pc = "cs_m" THEN lastActivity ELSE reg

\* The eligibility predicate of the design.  The idle duration is the
\* unsigned difference of the two operands: when the timestamp read is later
\* than the clock value read, it wraps to a value above the timeout.
C1_Eligible ==
  /\ sleepEnabled
  /\ IF C1_ClockRead >= C1_ActivityRead
       THEN C1_ClockRead - C1_ActivityRead > SLEEP_TIME_MS
       ELSE TRUE
  /\ ~isCharging
  /\ ~hasNotif
  /\ ~navData.active

---------------------------------------------------------------------------
(* Display mode *)

C2_RefMode ==
  IF hasNotif /\ now - notifStart < NOTIF_SHOW_MS
    THEN "notification"
    ELSE IF navData.active THEN "navigation" ELSE "clock"

\* C2: at every render tick the mode drawScreen draws is the one the reference
\* selector gives for the current Notification.active, Notification.startTime,
\* Navigation.active and clock: NOTIFICATION inside the 1500 ms window whatever
\* the navigation state, else NAVIGATION if navigation is active, else CLOCK.
C2_ModeIsReference ==
  [][ (pc = "render" /\ pc' = "expire" /\ lastUpdate' # lastUpdate)
        => screen'.mode = C2_RefMode ]_vars

\* A notification frame drawn while navigation is active.
C2_Witness ==
  /\ pc = "expire"
  /\ lastUpdate = now
  /\ screen.mode = "notification"
  /\ navData.active
  /\ hasNav

---------------------------------------------------------------------------
(* Activity recording *)

\* A step that handles a connection change, a notification, a battery update
\* or a navigation update that makes navigation active.
C3_Recording ==
  /\ pc = "poll"
  /\ \/ \E st \in BOOLEAN : onConnection(st)
     \/ onNotification
     \/ \E e \in ConfigEvents :
           /\ e[1] = "CF_PBAT" \/ (e[1] = "CF_NAV_DATA" /\ e[4].active)
           /\ onConfig(e[1], e[2], e[3], e[4])

\* A step that handles a time-sync update.
C3_TimeSync ==
  /\ pc = "poll"
  /\ onConfig("CF_TIME", 0, U32(0), NoNav)

\* A step that handles a navigation update leaving navigation inactive, or an
\* icon update.
C3_NavigationOnly ==
  /\ pc = "poll"
  /\ \E e \in ConfigEvents :
        /\ e[1] = "CF_NAV_ICON" \/ (e[1] = "CF_NAV_DATA" /\ ~e[4].active)
        /\ onConfig(e[1], e[2], e[3], e[4])

\* C3 as stated: the handler of every event the claim lists, the time-sync
\* update included, leaves the clock value it runs at in lastActivity.
C3_EveryEventRecords ==
  [][ /\ (C3_Recording \/ C3_TimeSync)
          => ((pc' = "st_cb" /\ reg' = now) \/ lastActivity' = now)
      /\ (pc = "st_cb" /\ pc' # pc) => lastActivity' = reg
      /\ buttonISR => lastActivity' = now
    ]_vars

\* C3 as amended: a connection change, a notification, a battery update and a
\* navigation update that makes navigation active read the clock and store
\* that value in lastActivity, and the button interrupt stores the clock value
\* of the press; a time-sync update, a navigation update that leaves navigation
\* inactive and an icon update leave lastActivity as it is.
C3_RecordingEventsRecord ==
  [][ /\ C3_Recording => (pc' = "st_cb" /\ reg' = now)
      /\ (pc = "st_cb" /\ pc' # pc) => (lastActivity' = reg /\ pc' = "poll")
      /\ buttonISR => (lastActivity' = now /\ buttonPressed')
      /\ (pc = "button" /\ buttonPressed /\ pc' # pc) => (reg' = now /\ pc' = "st_btn")
      /\ (pc = "st_btn" /\ pc' # pc) => lastActivity' = reg
      /\ (C3_TimeSync \/ C3_NavigationOnly)
          => (lastActivity' = lastActivity /\ pc' = "poll")
    ]_vars

\* A battery update handled later than setup, its clock value stored.
C3_Witness ==
  /\ pc = "poll"
  /\ batteryLevel = 57
  /\ ~isCharging /\ ~hasNotif /\ ~hasNav /\ ~buttonPressed
  /\ now > SETUP_DELAY_MS
  /\ lastActivity = now

---------------------------------------------------------------------------
(* Notification expiry *)

\* C4 as stated: at every sleep evaluation after a notification event at t0,
\* hasNotif holds exactly when now - t0 < 1500.
C4_ExpiredAtWindowEnd ==
  (pc = "checkSleep" /\ notifStart > 0)
     => (hasNotif <=> now - notifStart < NOTIF_SHOW_MS)

\* C4 as amended: hasNotif holds as long as now - t0 <= 1500; only the expiry
\* check of loop() clears it, exactly when it runs with now - t0 > 1500; no
\* render at now - t0 >= 1500 selects NOTIFICATION; a notification event sets
\* startTime to the clock and hasNotif, which restarts the window.
C4_ExpiryStrictlyAfterWindow ==
  /\ []((power = "AWAKE" /\ notifStart > 0 /\ now - notifStart <= NOTIF_SHOW_MS)
          => hasNotif)
  /\ [][ /\ (pc = "expire" /\ pc' # pc)
             => (hasNotif' <=> (hasNotif /\ now - notifStart <= NOTIF_SHOW_MS))
         /\ (hasNotif /\ ~hasNotif') => (pc = "expire" \/ power = "SUSPENDED")
         /\ (pc = "render" /\ pc' # pc /\ lastUpdate' # lastUpdate
               /\ now - notifStart >= NOTIF_SHOW_MS)
             => screen'.mode # "notification"
         /\ onNotification => (hasNotif' /\ notifStart' = now)
       ]_vars

\* A notification expired by the first check past its window.
C4_Witness ==
  /\ pc = "checkSleep"
  /\ notifStart > 0
  /\ ~hasNotif
  /\ now - notifStart = NOTIF_SHOW_MS + 1

---------------------------------------------------------------------------
(* The activity timestamp under interrupts *)

\* C5: under every interleaving of buttonISR with the main thread's writes of
\* lastActivity, the stored timestamp never moves backwards while the device
\* is awake, so after a button interrupt at time t it is never older than t.
C5_NoLostUpdate ==
  [][ (power = "AWAKE" /\ power' = "AWAKE") => lastActivity' >= lastActivity ]_vars

---------------------------------------------------------------------------
(* The sleep transition *)

\* C6: if arming a wake source failed, the sleep attempt is aborted:
\* esp_deep_sleep_start is not called and the device stays awake.
C6_AbortOnArmFailure ==
  [][ (pc = "gs_start" /\ ~(ext0Armed /\ timerArmed)) => power' = "AWAKE" ]_vars

C7_SleepPcs == {"gs_draw", "gs_hold", "gs_ext0", "gs_timer", "gs_start"}

C7_Successor(p) ==
  CASE p = "gs_draw"  -> "gs_hold"
    [] p = "gs_hold"  -> "gs_ext0"
    [] p = "gs_ext0"  -> "gs_timer"
    [] p = "gs_timer" -> "gs_start"
    [] p = "gs_start" -> "halted"

\* C7: the transition to SUSPENDED draws the sleep screen, holds, blanks the
\* screen, arms the edge wake source, arms the timer wake source and only then
\* enters deep sleep, so in every SUSPENDED state the screen is blank and both
\* wake sources are armed.
C7_OrderedAndArmed ==
  /\ [](power = "SUSPENDED"
          => (screen = Frame("blank") /\ ext0Armed /\ timerArmed))
  /\ [][ (pc \in C7_SleepPcs /\ pc' # pc) => pc' = C7_Successor(pc) ]_vars

\* C8: once the eligibility predicate has passed, the transition is not
\* abortable: until suspension the main thread only moves forward through
\* goToSleep, no event callback changes the state the callbacks own, and the
\* predicate is not evaluated again; a button interrupt changes nothing but
\* the flag and the timestamp.
C8_NotAbortable ==
  [][ (pc \in C7_SleepPcs)
        => /\ pc' \in {pc, C7_Successor(pc)}
           /\ UNCHANGED <<hasNotif, notifStart, hasNav, navData, batteryLevel,
                          isCharging, currentTime, lastUpdate, sleepEnabled>>
           /\ (power' = "SUSPENDED") <=> (pc = "gs_start" /\ pc' = "halted")
    ]_vars

\* Suspended although the button was pressed after the predicate passed.
C8_Witness ==
  /\ power = "SUSPENDED"
  /\ buttonPressed
  /\ lastActivity = now

---------------------------------------------------------------------------
(* Resume *)

\* C9: handleWakeUp puts every wake cause in exactly one of the three classes,
\* and apart from the class it prints its result is the same for all causes:
\* lastActivity is the resume time and every other variable keeps the value it
\* has at start-up.
C9_ResumeIgnoresCause ==
  [][ (pc = "boot" /\ pc' # pc)
        => /\ wakeCause \in WakeCauses
           /\ wakeLog' \in {"button", "timer", "other"}
           /\ (wakeLog' = "button") <=> (wakeCause = "EXT0")
           /\ (wakeLog' = "timer") <=> (wakeCause = "TIMER")
           /\ lastActivity' = now
           /\ now' = now
           /\ pc' = "setup_display"
           /\ power' = "AWAKE" /\ reg' = 0 /\ delayUntil' = 0 /\ sleepEnabled'
           /\ ~buttonPressed' /\ ~isrAttached' /\ ~hasNotif' /\ notifStart' = 0
           /\ ~hasNav' /\ navData' = NoNav /\ batteryLevel' = 0 /\ ~isCharging'
           /\ currentTime' = "" /\ lastUpdate' = 0 /\ screen' = NoScreen
           /\ ~ext0Armed' /\ ~timerArmed'
    ]_vars

\* Resumed by the timer, some time after the restart.
C9_Witness ==
  /\ pc = "setup_display"
  /\ wakeLog = "timer"
  /\ lastActivity = now
  /\ now > 0

---------------------------------------------------------------------------
(* Battery level *)

\* C10: batteryLevel is within 0..100 in every reachable state, so the gauge
\* fill stays within 0..18 pixels.
C10_LevelClamped ==
  /\ batteryLevel \in 0..100
  /\ drawBatteryFill(batteryLevel) \in 0..GAUGE_FILL_PX


---------------------------------------------------------------------------
(* The clock frame: drawClock as a function of the state it reads *)

\* Idle durations around the start of the countdown, a whole second inside
\* it, its last second, the timeout and beyond.
IdleSamples ==
  LET start == SLEEP_TIME_MS - COUNTDOWN_MS
  IN  {0, SLEEP_TIME_MS + RENDER_PERIOD_MS}
        \cup ((start - Jitter)..(start + Jitter))
        \cup ((start + 1000 - Jitter)..(start + 1000 + Jitter))
        \cup ((SLEEP_TIME_MS - 1000 - Jitter)..(SLEEP_TIME_MS - 1000 + Jitter))
        \cup ((SLEEP_TIME_MS - Jitter)..(SLEEP_TIME_MS + Jitter))

\* The first loop iteration at its render tick: activity last recorded when
\* setup finished, the iteration reached after any idle duration, with or
\* without a notification, a charging report and an active navigation
\* delivered at that moment.
InitRender ==
  \E idle \in IdleSamples, c \in BOOLEAN, n \in BOOLEAN, a \in BOOLEAN :
    /\ power = "AWAKE"
    /\ wakeCause = "read"
    /\ wakeLog = "started"
    /\ now = SETUP_DELAY_MS + idle
    /\ pc = "render"
    /\ reg = 0
    /\ delayUntil = 0
    /\ lastActivity = SETUP_DELAY_MS
    /\ sleepEnabled = TRUE
    /\ buttonPressed = FALSE
    /\ isrAttached = TRUE
    /\ hasNotif = n
    /\ notifStart = IF n THEN SETUP_DELAY_MS ELSE 0
    /\ hasNav = a
    /\ navData = [NoNav EXCEPT !.active = a, !.text = IF a THEN 1 ELSE 0]
    /\ batteryLevel = IF c THEN ToInt(U32(57)) ELSE 0
    /\ isCharging = c
    /\ currentTime = ""
    /\ lastUpdate = 0
    /\ screen = Frame("starting")
    /\ ext0Armed = FALSE
    /\ timerArmed = FALSE
    /\ suppressedAt = -1

NextRender == LoopRender

SpecRender == InitRender /\ [][NextRender]_vars

\* A render tick that draws a frame.
Renders ==
  pc = "render" /\ pc' = "expire" /\ now - lastUpdate > RENDER_PERIOD_MS

\* C11: whenever the clock frame is drawn with no suppressor and the idle
\* duration t in [20000, 30000), it shows "Sleep in n s" with
\* n = ceiling((SLEEP_TIMEOUT - t) / 1000), so n runs from 10 down to 1 and
\* is never 0.
C11_CountdownIsCeiling ==
  [][ LET t == now - lastActivity
      IN  ( /\ Renders
            /\ screen'.mode = "clock"
            /\ ~Suppressed
            /\ t >= SLEEP_TIME_MS - COUNTDOWN_MS
            /\ t < SLEEP_TIME_MS )
          => /\ screen'.countdown = (SLEEP_TIME_MS - t + 999) \div 1000
             /\ screen'.countdown \in 1..10 ]_vars

\* C12: a render tick draws the countdown only if the device is not
\* charging, no notification is active, navigation is not active, and the
\* idle duration lies in the ten seconds that end at the timeout; for an
\* idle duration beyond the timeout, where the unsigned remaining time has
\* wrapped, it draws none.
C12_CountdownOnlyInWindow ==
  [][ LET t == now - lastActivity
      IN  (Renders /\ screen'.countdown # -1)
          => /\ ~isCharging
             /\ ~hasNotif
             /\ ~(hasNav /\ navData.active)
             /\ t <= SLEEP_TIME_MS
             /\ SLEEP_TIME_MS - t < COUNTDOWN_MS ]_vars

\* A countdown has just been drawn.
C12_Witness ==
  /\ pc = "expire"
  /\ lastUpdate = now
  /\ screen.mode = "clock"
  /\ screen.countdown # -1


---------------------------------------------------------------------------
(* Charging *)

\* C13: a battery update that reports charging, delivered while the device
\* is awake (also when the idle duration is already past the timeout),
\* reads the clock for lastActivity; a sleep evaluation made while isCharging
\* holds refreshes lastActivity instead of comparing; and the sleep
\* transition never starts in a state where isCharging holds.
C13_ChargingBlocksSleep ==
  [][ /\ (pc = "poll" /\ ~isCharging /\ isCharging')
          => (reg' = now /\ pc' = "st_cb")
      /\ (pc = "st_cb" /\ pc' # pc /\ isCharging)
          => (lastActivity' = reg /\ isCharging')
      /\ (pc = "checkSleep" /\ pc' # pc /\ isCharging)
          => (pc' = "st_cs" /\ reg' = now)
      /\ (pc' = "gs_draw" /\ pc # "gs_draw") => ~isCharging ]_vars

\* The charging report has just been handled, after a frame that still
\* showed the countdown, with the idle duration past the timeout.
C13_Witness ==
  /\ power = "AWAKE"
  /\ pc = "st_cb"
  /\ isCharging
  /\ reg = now
  /\ screen.countdown # -1
  /\ now - lastActivity > SLEEP_TIME_MS


---------------------------------------------------------------------------
(* Eligibility as a function of time *)

\* The condition under which checkSleep calls goToSleep, on the current
\* clock and the current lastActivity.
C14_Eligible ==
  /\ sleepEnabled
  /\ ~Suppressed
  /\ GtU32(Elapsed(now, lastActivity), U32(SLEEP_TIME_MS))

\* C14: with sleepEnabled and no suppressor, eligibility holds exactly when
\* the idle duration exceeds the timeout; while only time advances (no new
\* activity record, no suppressor) it stays true once true; and it turns
\* false only by a new activity record or a suppressor becoming true.
C14_EligibilityMonotonic ==
  [][ (power = "AWAKE" /\ power' = "AWAKE")
      => /\ C14_Eligible
              <=> (sleepEnabled /\ ~Suppressed
                     /\ now - lastActivity > SLEEP_TIME_MS)
         /\ ( /\ C14_Eligible
              /\ now' > now
              /\ lastActivity' = lastActivity
              /\ ~Suppressed' )
              => C14_Eligible'
         /\ (C14_Eligible /\ ~C14_Eligible')
              => (lastActivity' # lastActivity \/ Suppressed') ]_vars

\* In the loop, time has advanced by a second or more beyond the timeout with
\* the device still eligible.
C14_Witness ==
  /\ power = "AWAKE"
  /\ pc \in {"poll", "button", "render", "expire", "checkSleep", "delay"}
  /\ lastActivity >= SETUP_DELAY_MS
  /\ C14_Eligible
  /\ now - lastActivity >= SLEEP_TIME_MS + SLEEP_HOLD_MS


---------------------------------------------------------------------------
(* Navigation record *)

C15_NavData == \E n \in NavInputs : onConfig("CF_NAV_DATA", 0, U32(0), n)

C15_NavIcon == \E n \in NavInputs : onConfig("CF_NAV_ICON", 0, U32(0), n)

\* C15: a navigation update (CF_NAV_DATA) leaves the stored icon bitmap and
\* hasIcon unchanged; an icon update (CF_NAV_ICON) sets hasIcon and changes
\* nothing but the icon bitmap: active, hasNav, the text fields and
\* lastActivity stay as they are; and hasIcon becomes true only by an icon
\* update.
C15_IconAndTextIndependent ==
  [][ /\ C15_NavData
          => /\ navData'.icon = navData.icon
             /\ navData'.hasIcon = navData.hasIcon
      /\ C15_NavIcon
          => /\ navData'.hasIcon
             /\ navData'.active = navData.active
             /\ navData'.text = navData.text
             /\ UNCHANGED <<hasNav, lastActivity, reg, pc>>
      /\ (power = "AWAKE" /\ ~navData.hasIcon /\ navData'.hasIcon)
          => C15_NavIcon ]_vars


---------------------------------------------------------------------------
(* Order of the steps of a loop iteration *)

\* The state the event callbacks write and drawScreen reads.
C16_EventState ==
  <<notifStart, hasNav, navData, batteryLevel, isCharging>>

\* C16: in every loop iteration the frame is drawn after the poll and the
\* button-flag check of that iteration are complete: the callbacks write
\* their state only inside the poll, the poll ends only when their activity
\* records are stored, the render tick is reached only from the button-flag
\* check with the flag's activity record stored, and the frame is decided and
\* flushed on one state that no callback changes.
C16_RenderAfterEvents ==
  [][ (power = "AWAKE" /\ power' = "AWAKE")
      => /\ (C16_EventState' # C16_EventState \/ (~hasNotif /\ hasNotif'))
              => pc \in {"poll"}
         /\ (pc' = "button" /\ pc # "button") => pc = "poll"
         /\ (pc' = "render" /\ pc # "render")
              => /\ pc \in {"button", "st_btn"}
                 /\ pc = "button" => ~buttonPressed
                 /\ pc = "st_btn" => lastActivity' = reg
         /\ (pc = "render" /\ pc' # pc)
              => /\ pc' = "expire"
                 /\ UNCHANGED <<C16_EventState, hasNotif>>
                 /\ screen' # screen => screen' = drawScreen
         /\ (screen' # screen /\ pc # "render")
              => pc \in {"setup_display", "gs_draw", "gs_hold"} ]_vars

\* A notification delivered by the poll of an iteration is on the frame that
\* iteration draws.
C16_Witness ==
  /\ power = "AWAKE"
  /\ pc = "expire"
  /\ hasNotif
  /\ notifStart = now
  /\ lastUpdate = now
  /\ screen.mode = "notification"


---------------------------------------------------------------------------
(* The expiry check *)

\* Everything the expiry check could write other than hasNotif.
C17_Rest ==
  <<power, wakeCause, wakeLog, now, reg, delayUntil, lastActivity,
    sleepEnabled, buttonPressed, isrAttached, notifStart, hasNav, navData,
    batteryLevel, isCharging, currentTime, lastUpdate, screen, ext0Armed,
    timerArmed>>

\* C17: the expiry check changes nothing when hasNotif is false; it never
\* sets hasNotif and never writes lastActivity or notifStart; and a
\* notification it leaves active is one whose window has not been exceeded,
\* so a second check at the same clock value changes nothing more.
C17_ExpiryIdempotent ==
  [][ (pc = "expire" /\ pc' # pc)
      => /\ pc' = "checkSleep"
         /\ UNCHANGED C17_Rest
         /\ ~hasNotif => ~hasNotif'
         /\ hasNotif' => (hasNotif /\ now - notifStart <= NOTIF_SHOW_MS)
         /\ hasNotif' = (hasNotif' /\ ~(now' - notifStart' > NOTIF_SHOW_MS)) ]_vars

\* The check has run on a notification that an earlier check had already
\* expired, or expires it now.
C17_Witness ==
  /\ power = "AWAKE"
  /\ pc = "checkSleep"
  /\ ~hasNotif
  /\ notifStart >= SETUP_DELAY_MS
  /\ now - notifStart > NOTIF_SHOW_MS


---------------------------------------------------------------------------
(* The two reads of the timeout test *)

\* C18: when checkSleep has read millis() first and buttonISR writes
\* lastActivity before checkSleep reads it, the unsigned difference does not
\* wrap: the sleep transition starts only if the clock value read is not
\* before lastActivity and more than SLEEP_TIME_MS has elapsed since the
\* last recorded activity.
C18_NoWrapOnRace ==
  [][ (pc = "cs_m" /\ pc' = "gs_draw")
      => /\ reg >= lastActivity
         /\ now - lastActivity > SLEEP_TIME_MS ]_vars

---------------------------------------------------------------------------
(* Time since the last suppressed evaluation *)

NextObserved ==
  \/ Tick
  \/ buttonISR
  \/ StoreActivity
  \/ handleWakeUp
  \/ SetupDisplay
  \/ SetupFinish
  \/ \E state \in BOOLEAN : onConnection(state)
  \/ onNotification
  \/ \E e \in ConfigEvents : onConfig(e[1], e[2], e[3], e[4])
  \/ PollReturn
  \/ LoopButton
  \/ LoopRender
  \/ LoopExpire
  \/ checkSleepObserved
  \/ checkSleepCompare
  \/ LoopDelay
  \/ goToSleepDraw
  \/ goToSleepBlank
  \/ \E ok \in BOOLEAN : armExt0(ok)
  \/ \E ok \in BOOLEAN : armTimer(ok)
  \/ deepSleepStart
  \/ \E cause \in WakeCauses : Wake(cause)

\* The program, with the clock value of the last suppressed evaluation of
\* checkSleep kept in suppressedAt.
SpecObserved == Init /\ [][NextObserved]_vars

\* C19: the device is never suspended less than SLEEP_TIME_MS after the last
\* loop iteration whose checkSleep found charging, a notification or an
\* active navigation, however that suppressor was cleared.
C19_SuspendAfterSuppressor ==
  (power = "SUSPENDED" /\ suppressedAt >= 0)
    => now - suppressedAt >= SLEEP_TIME_MS


---------------------------------------------------------------------------
(* Progress to sleep once the inputs stop *)

\* The last clock value at which an event or a button press occurs.
QuietFrom == NotifInstant + Jitter

\* One timeout after the latest activity record a run can then still make
\* (the consumption of a pending button flag), and the end of the hold of a
\* sleep transition started there.
LiveSleepAt == TimeoutInstant + Jitter + SLEEP_TIME_MS + 1

LiveEnd == LiveSleepAt + SLEEP_HOLD_MS

LivePoints == TimePoints \cup {LiveSleepAt, LiveEnd}

\* The main thread's steps.
MainStep ==
  \/ StoreActivity
  \/ handleWakeUp
  \/ SetupDisplay
  \/ SetupFinish
  \/ PollReturn
  \/ LoopButton
  \/ LoopRender
  \/ LoopExpire
  \/ checkSleep
  \/ checkSleepCompare
  \/ LoopDelay
  \/ goToSleepDraw
  \/ goToSleepBlank
  \/ \E ok \in BOOLEAN : armExt0(ok)
  \/ \E ok \in BOOLEAN : armTimer(ok)
  \/ deepSleepStart

\* The clock during a delay(): it advances to the first sampled value at
\* which the delay has ended, or up to Jitter later.  The steps between two
\* delays take no sampled time.
TickLive ==
  /\ power = "AWAKE"
  /\ pc \in {"setup_delay", "delay", "gs_hold"}
  /\ now < delayUntil
  /\ \E t \in LivePoints :
       /\ t >= delayUntil
       /\ \A u \in LivePoints : u >= delayUntil => t <= u + Jitter
       /\ now' = t
  /\ UNCHANGED <<power, wakeCause, wakeLog, pc, reg, delayUntil, lastActivity,
                 sleepEnabled, buttonPressed, isrAttached, hasNotif, notifStart,
                 hasNav, navData, batteryLevel, isCharging,
                 currentTime, lastUpdate, screen, ext0Armed, timerArmed,
                 suppressedAt>>

\* Events and button presses, none after QuietFrom.
LiveInput ==
  /\ now <= QuietFrom
  /\ \/ buttonISR
     \/ \E state \in BOOLEAN : onConnection(state)
     \/ onNotification
     \/ \E e \in ConfigEvents : onConfig(e[1], e[2], e[3], e[4])

NextLive ==
  \/ TickLive
  \/ MainStep
  \/ LiveInput
  \/ \E cause \in WakeCauses : Wake(cause)

\* The main loop keeps running and the clock keeps advancing.
SpecLive ==
  Init /\ [][NextLive]_vars /\ WF_vars(MainStep) /\ WF_vars(TickLive)

\* No more inputs, not charging, navigation inactive.
C20_Quiet ==
  /\ power = "AWAKE"
  /\ now > QuietFrom
  /\ ~isCharging
  /\ ~navData.active

\* C20: once no event and no button press occurs any more, with the device
\* not charging and navigation inactive, the device eventually is SUSPENDED,
\* whether or not a notification is still active at that point.
C20_QuietLeadsToSleep == C20_Quiet ~> (power = "SUSPENDED")

\* The inputs have stopped with a notification still active.
C20_Witness ==
  /\ C20_Quiet
  /\ hasNotif
  /\ pc = "delay"

=============================================================================
